---- MODULE Spec2Model ----
(***************************************************************************)
(* Chaos-game renderer (src/main.py): console input, optimal-ratio         *)
(* calculation, polygon construction, vertex selection, the three-channel  *)
(* trajectory update and the per-channel pixel accumulation.               *)
(*                                                                         *)
(* Python floats are modelled as fixed-point integers, every float         *)
(* operation rounding to the nearest representable value:                  *)
(*   coordinates    in 1/PosScale pixels,                                  *)
(*   ratios, jitter in 1/RatioScale,                                       *)
(*   angles, cosines in 1/TrigScale (radians), degrees in 1/DegScale.      *)
(* int() is truncation of a coordinate to whole pixels.                    *)
(***************************************************************************)
EXTENDS Integers, Sequences, FiniteSets, TLC

\* ---------------------------------------------------------------- constants
Width == 800
Height == 800
Margin == 10
Increment == 4
MaxIntensity == 255
plane_randomness == <<20, 40, 80>>

PosScale == 4
RatioScale == 1000
TrigScale == 10000
DegScale == 100
Pi == 31416

\* ------------------------------------------------------------------- bounds
MaxN == 4
MaxSteps == 2
MaxRedraws == 3
MaxRatioN == 100

\* the console inputs tried for the ratio: the sentinel, a non-numeric text,
\* and numeric literals (in 1/RatioScale)
RatioInputs ==
    { [kind |-> "optimal", val |-> 0],
      [kind |-> "text",    val |-> 0],
      [kind |-> "number",  val |-> 990],
      [kind |-> "number",  val |-> 1500] }

\* the values of random.randint(0, width) / random.randint(0, height) tried
InitXs == {590}
InitYs == {400}

\* the values of random.random() tried, as <<numerator, denominator>>
RandomFractions == { <<0, 4>>, <<3, 4>> }

\* the surfaces mark_pixel is applied to on its own
ProbePixels == { <<0, 0>>, <<Width - 1, Height - 1>> }
ProbeVals == {0, 252, 253, 255}
PaintPixels == { <<Width \div 2, Margin>> }

\* ------------------------------------------------------------ float helpers
Abs(v) == IF v < 0 THEN -v ELSE v

Min(a, b) == IF a < b THEN a ELSE b

\* a / b rounded to the nearest integer (b > 0)
DivRound(a, b) == (a + b \div 2) \div b

Ok(v) == [tag |-> "ok", val |-> v]

Raise(e) == [tag |-> e, val |-> 0]

\* math.cos on [0, pi/2]: the Taylor polynomial up to x^10
CosSmall(x) ==
    LET x2 == DivRound(x * x, TrigScale)
        t1 == DivRound(x2, 2)
        t2 == DivRound(t1 * x2, 12 * TrigScale)
        t3 == DivRound(t2 * x2, 30 * TrigScale)
        t4 == DivRound(t3 * x2, 56 * TrigScale)
        t5 == DivRound(t4 * x2, 90 * TrigScale)
    IN  TrigScale - t1 + t2 - t3 + t4 - t5

\* math.cos of an angle >= 0: reduction to [0, pi/2] by period and symmetry
Cos(a) ==
    LET m == a % (2 * Pi)
        f == IF m > Pi THEN 2 * Pi - m ELSE m
    IN  IF 2 * f > Pi THEN -CosSmall(Pi - f) ELSE CosSmall(f)

\* math.sin(a) = cos(a - pi/2)
Sin(a) == Cos(a + 2 * Pi - Pi \div 2)

\* ---------------------------------------------------------------- mark_pixel
EmptySurface == [p \in {} |-> <<0, 0, 0>>]

\* surface.get_at(pos): a pixel never written is black
GetAt(s, pos) == IF pos \in DOMAIN s THEN s[pos] ELSE <<0, 0, 0>>

\* surface.set_at(pos, color)
SetAt(s, pos, color) ==
    [p \in DOMAIN s \cup {pos} |-> IF p = pos THEN color ELSE s[p]]

\* the positions a width x height surface accepts
OnSurface(pos) ==
    /\ 0 <= pos[1] /\ pos[1] < Width
    /\ 0 <= pos[2] /\ pos[2] < Height

BrightenWrap(v) == (v + Increment) % (MaxIntensity + 1)

\* v = min(col[plane] + 4, 255)
Brighten(v) == Min(v + Increment, MaxIntensity)

mark_pixel_clobber(s, pos, plane) ==
    SetAt(s, pos, [k \in 1..3 |-> IF k - 1 = plane
                                    THEN Brighten(GetAt(s, pos)[k]) ELSE 0])

\* mark_pixel(surface, pos, plane), plane in 0..2
mark_pixel(s, pos, plane) ==
    LET col == GetAt(s, pos)
        v == Brighten(col[plane + 1])
        new_color == [k \in 1..3 |-> IF k - 1 = plane THEN v ELSE col[k]]
    IN  SetAt(s, pos, new_color)

\* ---------------------------------------------------------- random_point_index
\* random.randint(lo, hi): both ends included
RandInt(lo, hi) == lo..hi

IndexDrawsM(L) == RandInt(0, L)

\* random.randint(0, polygon_length - 1)
IndexDraws(L) == RandInt(0, L - 1)

Sample3M(L) == [1..3 -> 0..(L - 1)]

\* random.sample(range(polygon_length), 3): three distinct indices, any order
Sample3(L) ==
    { s \in [1..3 -> 0..(L - 1)] : s[1] # s[2] /\ s[1] # s[3] /\ s[2] # s[3] }

\* idx.sort() on a list of three
SortAsc(s) ==
    LET lo == Min(s[1], Min(s[2], s[3]))
        hi == -Min(-s[1], Min(-s[2], -s[3]))
    IN  <<lo, s[1] + s[2] + s[3] - lo - hi, hi>>

RedrawnM(ix, v) == [ix EXCEPT ![2] = v]

\* idx[0] = v
Redrawn(ix, v) == [ix EXCEPT ![1] = v]

\* the condition of "continue" in the retry loop
Rejected(d1, d, L) == d1 = 0 /\ (d = 1 \/ d = L - 1)

\* ------------------------------------------------------------- init_polygon
\* vertex i (0-based) of the polygon, in 1/PosScale pixels
Vertex(width, height, k, i) ==
    LET delta_angle == DivRound(360 * DegScale, k)
        rad == DivRound(width * PosScale, 2) - Margin * PosScale
        angle == DivRound((180 * DegScale + i * delta_angle) * Pi, 180 * DegScale)
    IN  << DivRound(width * PosScale, 2) + DivRound(rad * Sin(angle), TrigScale),
           DivRound(height * PosScale, 2) + DivRound(rad * Cos(angle), TrigScale) >>

init_polygon(width, height, k) ==
    [j \in 1..k |-> Vertex(width, height, k, j - 1)]

\* --------------------------------------------------- calculate_optimal_ratio
InvalidSidesM(k) == k < 2

\* if n <= 2: raise ValueError
InvalidSides(k) == k <= 2

RECURSIVE SumCos(_, _)
\* sum of cos(i * step) for i = 1..m
SumCos(step, m) == IF m = 0 THEN 0 ELSE SumCos(step, m - 1) + Cos(m * step)

RatioOfM(a) == DivRound((2 * TrigScale + 2 * a) * RatioScale, TrigScale + 2 * a)

\* r_opt = (1 + 2a) / (2 + 2a), in 1/RatioScale
RatioOf(a) == DivRound((TrigScale + 2 * a) * RatioScale, 2 * TrigScale + 2 * a)

calculate_optimal_ratio(k) ==
    IF InvalidSides(k)
    THEN Raise("ValueError")
    ELSE LET theta == DivRound((k - 2) * Pi, k)
             n_protruding == k \div 4
             a == SumCos(Pi - theta, n_protruding)
         IN  Ok(RatioOf(a))

\* float(r_input): a numeric literal parses, any other text raises ValueError
ParseFloat(inp) ==
    IF inp.kind = "number" THEN Ok(inp.val) ELSE Raise("ValueError")

\* ------------------------------------------------------------------- state
VARIABLES n, r_input, r, err, polygon, x, y, surface, step, pc,
          plane_idx, i, idx, dst1, redraws, saved, probe

vars == <<n, r_input, r, err, polygon, x, y, surface, step, pc,
          plane_idx, i, idx, dst1, redraws, saved, probe>>

NoProbe == [pos |-> <<0, 0>>, plane |-> 0, before |-> EmptySurface]

\* the locals of main and of the selector before main has run
Rest ==
    /\ r = 0
    /\ err = ""
    /\ polygon = <<>>
    /\ x = <<0, 0, 0>>
    /\ y = <<0, 0, 0>>
    /\ step = 0
    /\ plane_idx = 0
    /\ i = 0
    /\ idx = <<>>
    /\ dst1 = 0
    /\ redraws = 0
    /\ saved = 0
    /\ probe = NoProbe

NoInput == [kind |-> "text", val |-> 0]

Init ==
    /\ Rest
    /\ n = 0
    /\ r_input = NoInput
    /\ surface = EmptySurface
    /\ pc = "input"

\* ------------------------------------------------------------------ __main__
\* n = int(input(..)); r_input = input(..)
ReadInput ==
    /\ pc = "input"
    /\ n' \in 1..MaxN
    /\ r_input' \in RatioInputs
    /\ pc' = "ratio"
    /\ UNCHANGED <<r, err, polygon, x, y, surface, step, plane_idx, i, idx,
                   dst1, redraws, saved, probe>>

\* r = calculate_optimal_ratio(n) or float(r_input); an exception is not caught
ChooseRatio ==
    /\ pc = "ratio"
    /\ LET res == IF r_input.kind = "optimal"
                  THEN calculate_optimal_ratio(n)
                  ELSE ParseFloat(r_input)
       IN  IF res.tag = "ok"
           THEN r' = res.val /\ pc' = "main" /\ UNCHANGED err
           ELSE err' = res.tag /\ pc' = "crashed" /\ UNCHANGED r
    /\ UNCHANGED <<n, r_input, polygon, x, y, surface, step, plane_idx, i, idx,
                   dst1, redraws, saved, probe>>

\* ---------------------------------------------------------------------- main
\* the window, the polygon, the three start points, step = 0
MainSetup ==
    /\ pc = "main"
    /\ polygon' = init_polygon(Width, Height, n)
    /\ x' \in [1..3 -> {PosScale * v : v \in InitXs}]
    /\ y' \in [1..3 -> {PosScale * v : v \in InitYs}]
    /\ surface' = EmptySurface
    /\ step' = 0
    /\ pc' = "loop"
    /\ UNCHANGED <<n, r_input, r, err, plane_idx, i, idx, dst1, redraws,
                   saved, probe>>

\* step += 1; random_point_index(n) with n <= 3
SelectSmall ==
    /\ pc = "loop"
    /\ step < MaxSteps
    /\ n <= 3
    /\ step' = step + 1
    /\ i' \in IndexDraws(n)
    /\ pc' = "returned"
    /\ UNCHANGED <<n, r_input, r, err, polygon, x, y, surface, plane_idx, idx,
                   dst1, redraws, saved, probe>>

\* step += 1; random_point_index(n) with n > 3, up to the retry loop
SelectSample ==
    /\ pc = "loop"
    /\ step < MaxSteps
    /\ n > 3
    /\ step' = step + 1
    /\ \E s \in Sample3(n) :
          /\ idx' = SortAsc(s)
          /\ dst1' = Abs(SortAsc(s)[2] - SortAsc(s)[3])
    /\ redraws' = 0
    /\ pc' = "redraw"
    /\ UNCHANGED <<n, r_input, r, err, polygon, x, y, surface, plane_idx, i,
                   saved, probe>>

\* one pass of the retry loop: redraw idx[0], then continue or return it
Redraw ==
    /\ pc = "redraw"
    /\ redraws < MaxRedraws
    /\ \E v \in IndexDraws(n) :
          LET nidx == Redrawn(idx, v)
              dst == Abs(nidx[1] - nidx[2])
          IN  /\ idx' = nidx
              /\ IF Rejected(dst1, dst, n)
                 THEN pc' = "redraw" /\ UNCHANGED i
                 ELSE pc' = "returned" /\ i' = nidx[1]
    /\ redraws' = redraws + 1
    /\ UNCHANGED <<n, r_input, r, err, polygon, x, y, surface, step, plane_idx,
                   dst1, saved, probe>>

\* the selector's frame is gone; for plane_idx in range(3)
BeginPlanes ==
    /\ pc = "returned"
    /\ idx' = <<>>
    /\ dst1' = 0
    /\ redraws' = 0
    /\ plane_idx' = 0
    /\ pc' = "move"
    /\ UNCHANGED <<n, r_input, r, err, polygon, x, y, surface, step, i, saved,
                   probe>>

\* p += (vertex - p) * f
Moved(p, vertex, f) == p + DivRound((vertex - p) * f, RatioScale)

\* 0 <= x <= width and 0 <= y <= height
InBounds(px, py) ==
    /\ 0 <= px /\ px <= Width * PosScale
    /\ 0 <= py /\ py <= Height * PosScale

\* int(v) of a coordinate that passed the bounds test
Trunc(v) == v \div PosScale

\* the position after the last plane of a step, or the next plane
AfterPlane(p) == IF p = 2 THEN "events" ELSE "move"

\* the jitter draw, the move of trajectory plane_idx and the bounds test
MovePlane ==
    /\ pc = "move"
    /\ \E u \in RandomFractions :
          LET rr == DivRound(u[1] * plane_randomness[plane_idx + 1], u[2])
              nx == Moved(x[plane_idx + 1], polygon[i + 1][1], r + rr)
              ny == Moved(y[plane_idx + 1], polygon[i + 1][2], r + rr)
          IN  /\ x' = [x EXCEPT ![plane_idx + 1] = nx]
              /\ y' = [y EXCEPT ![plane_idx + 1] = ny]
              /\ IF InBounds(nx, ny)
                 THEN pc' = "mark" /\ UNCHANGED plane_idx
                 ELSE /\ pc' = AfterPlane(plane_idx)
                      /\ plane_idx' = (plane_idx + 1) % 3
    /\ UNCHANGED <<n, r_input, r, err, polygon, surface, step, i, idx, dst1,
                   redraws, saved, probe>>

\* the pixel mark_pixel is called with
MarkPos == <<Trunc(x[plane_idx + 1]), Trunc(y[plane_idx + 1])>>

\* mark_pixel(surface, (int(x), int(y)), plane_idx); get_at raises IndexError
\* for a position outside the surface, and nothing catches it
MarkCall ==
    /\ pc = "mark"
    /\ IF OnSurface(MarkPos)
       THEN /\ surface' = mark_pixel(surface, MarkPos, plane_idx)
            /\ pc' = AfterPlane(plane_idx)
            /\ plane_idx' = (plane_idx + 1) % 3
            /\ UNCHANGED err
       ELSE /\ err' = "IndexError"
            /\ pc' = "crashed"
            /\ UNCHANGED <<surface, plane_idx>>
    /\ UNCHANGED <<n, r_input, r, polygon, x, y, step, i, idx, dst1, redraws,
                   saved, probe>>

\* for event in pygame.event.get(): on QUIT save the image and return
\* (pygame.display.update() every 5000th step changes nothing kept here)
PollEvents ==
    /\ pc = "events"
    /\ \E quit \in BOOLEAN :
          IF quit
          THEN saved' = saved + 1 /\ pc' = "done"
          ELSE pc' = "loop" /\ UNCHANGED saved
    /\ UNCHANGED <<n, r_input, r, err, polygon, x, y, surface, step, plane_idx,
                   i, idx, dst1, redraws, probe>>

Next ==
    \/ ReadInput
    \/ ChooseRatio
    \/ MainSetup
    \/ SelectSmall
    \/ SelectSample
    \/ Redraw
    \/ BeginPlanes
    \/ MovePlane
    \/ MarkCall
    \/ PollEvents

Spec == Init /\ [][Next]_vars

\* the positions of the render loop (main.py:120-140)
LoopPcs == {"loop", "redraw", "returned", "move", "mark", "events"}

\* ------------------------------------------- calculate_optimal_ratio alone
InitRatio ==
    /\ Rest
    /\ n \in 3..MaxRatioN
    /\ r_input = [kind |-> "optimal", val |-> 0]
    /\ surface = EmptySurface
    /\ pc = "ratio"

NextRatio == ChooseRatio

SpecRatio == InitRatio /\ [][NextRatio]_vars

\* ------------------------------------------------------- mark_pixel alone
InitMark ==
    /\ Rest
    /\ n = 0
    /\ r_input = NoInput
    /\ surface \in [ProbePixels -> [1..3 -> ProbeVals]]
    /\ pc = "probe"

\* one call mark_pixel(surface, pos, plane); probe keeps the arguments
ProbeMark ==
    /\ pc = "probe"
    /\ \E pos \in ProbePixels, plane \in 0..2 :
          /\ surface' = mark_pixel(surface, pos, plane)
          /\ probe' = [pos |-> pos, plane |-> plane, before |-> surface]
    /\ pc' = "probed"
    /\ UNCHANGED <<n, r_input, r, err, polygon, x, y, step, plane_idx, i, idx,
                   dst1, redraws, saved>>

NextMark == ProbeMark

SpecMark == InitMark /\ [][NextMark]_vars

\* ------------------------------- the framebuffer under the loop's painting
\* "no pixel emitted" for a plane whose point failed the bounds test
NotEmitted == <<-1, -1>>

\* the mark_pixel call of one plane of a step, if its point was emitted
PaintPlane(s, pos, plane) ==
    IF pos = NotEmitted THEN s ELSE mark_pixel(s, pos, plane)

InitPaint ==
    /\ Rest
    /\ n = 0
    /\ r_input = NoInput
    /\ surface = EmptySurface
    /\ pc = "paint"

\* one step of the loop as the framebuffer sees it: for plane 0, 1, 2 in
\* turn, at most one mark_pixel call, at whatever pixel the trajectory is on
PaintStep ==
    /\ pc = "paint"
    /\ \E c \in [0..2 -> PaintPixels \cup {NotEmitted}] :
          surface' = PaintPlane(PaintPlane(PaintPlane(surface, c[0], 0),
                                           c[1], 1), c[2], 2)
    /\ UNCHANGED <<n, r_input, r, err, polygon, x, y, step, pc, plane_idx, i,
                   idx, dst1, redraws, saved, probe>>

NextPaint == PaintStep

SpecPaint == InitPaint /\ [][NextPaint]_vars

\* ==================================================================== claims

\* C1 (SpecMark): after mark_pixel(pos, c) on any surface, channel c of pixel
\* pos is min(old + 4, 255), the other two channels of pos are as before, and
\* every other pixel is as before.
C1_MarkPixelFrame ==
    pc = "probed" =>
        LET before == GetAt(probe.before, probe.pos)
            after == GetAt(surface, probe.pos)
            c == probe.plane + 1
        IN  /\ after[c] = (IF before[c] + 4 > 255 THEN 255 ELSE before[c] + 4)
            /\ \A k \in 1..3 : k # c => after[k] = before[k]
            /\ \A q \in ProbePixels :
                  q # probe.pos => GetAt(surface, q) = GetAt(probe.before, q)

\* C1 witness: a channel at 253 was marked and now holds 255, beside a
\* non-zero channel of the same pixel
C1_Witness ==
    /\ pc = "probed"
    /\ GetAt(probe.before, probe.pos)[probe.plane + 1] = 253
    /\ GetAt(surface, probe.pos)[probe.plane + 1] = 255
    /\ \E k \in 1..3 : k # probe.plane + 1 /\ GetAt(surface, probe.pos)[k] = 252

\* C2 (SpecPaint): from the all-zero framebuffer, every channel of every
\* pixel stays in 0..255 and no step of the loop lowers a channel.
C2_ChannelsBoundedMonotone ==
    /\ [](\A p \in DOMAIN surface : \A k \in 1..3 :
              0 <= surface[p][k] /\ surface[p][k] <= 255)
    /\ [][\A p \in DOMAIN surface \cup DOMAIN surface' : \A k \in 1..3 :
              GetAt(surface, p)[k] <= GetAt(surface', p)[k]]_vars

\* C2 witness: one channel of a pixel has saturated while another has not
C2_Witness ==
    \E p \in DOMAIN surface : surface[p][1] = 255 /\ surface[p][2] = 252

\* C3 (Spec): whenever random_point_index(n) has returned, without raising,
\* its result is an index 0 <= i < n, a position of the n-vertex polygon that
\* the loop reads next.
C3_IndexInRange ==
    pc = "returned" =>
        /\ err = ""
        /\ 0 <= i /\ i < n
        /\ Len(polygon) = n
        /\ i + 1 \in DOMAIN polygon

\* C3 witness: a polygon of at most three vertices and its last index returned
C3_Witness == pc = "returned" /\ n <= 3 /\ i = n - 1 /\ n > 1

\* C4 (Spec): for n > 3 the returned idx[0] never has dst1 = 0 together with
\* dst = 1 or dst = n - 1, for dst1 = |idx[1] - idx[2]| of the sorted draw
\* (neither is assigned after the sort) and dst = |idx[0] - idx[1]|.
C4_NoRejectedReturn ==
    (pc = "returned" /\ n > 3) =>
        /\ i = idx[1]
        /\ dst1 = Abs(idx[2] - idx[3])
        /\ ~ ( /\ Abs(idx[2] - idx[3]) = 0
               /\ Abs(idx[1] - idx[2]) \in {1, n - 1} )

\* C4 witness: the accepted redraw repeats the draw's own idx[1]
C4_Witness == pc = "returned" /\ n > 3 /\ idx[1] = idx[2]

\* C5 (Spec): with the optimal ratio requested, n <= 2 ends the program with
\* the ValueError before main: no step, no mark_pixel call, no export; n > 2
\* yields a ratio and no ValueError.
C5_OptimalNeedsThreeSides ==
    (r_input.kind = "optimal" /\ pc \notin {"input", "ratio"}) =>
        IF n <= 2
        THEN /\ pc = "crashed" /\ err = "ValueError"
             /\ step = 0 /\ surface = EmptySurface /\ saved = 0
             /\ polygon = <<>>
        ELSE err # "ValueError" /\ r > 0

\* C5 witness: the optimal ratio was requested for two sides and the program
\* has ended
C5_Witness == r_input.kind = "optimal" /\ n = 2 /\ pc = "crashed"

\* C6 (Spec), the claim as stated: while the loop runs, 0 < r < 1.
C6_RatioInUnitInterval ==
    pc \in LoopPcs => (0 < r /\ r < RatioScale)

\* C7 (SpecRatio): for n = 3..MaxRatioN, calculate_optimal_ratio(n) returns a
\* value strictly between 0 and 1.
C7_OptimalRatioInUnitInterval ==
    (pc # "ratio" /\ n > 2) => (pc = "main" /\ 0 < r /\ r < RatioScale)

\* C7 witness: a polygon with protruding vertices, ratio above one half
C7_Witness == pc = "main" /\ n = MaxRatioN /\ r > RatioScale \div 2

\* C8 (Spec), the claim as stated, for a ratio inside (0,1): every mark_pixel
\* call gets a position on the surface, and no step fails.
C8_MarkOnSurface ==
    (0 < r /\ r < RatioScale) =>
        /\ pc = "mark" => OnSurface(MarkPos)
        /\ err # "IndexError"

\* C9 (Spec), the claim as stated, for a ratio inside (0,1): the image is
\* saved at most once, the loop ends only by the quit event, and it has then
\* been saved.
C9_LoopEndsOnlyOnQuit ==
    (0 < r /\ r < RatioScale /\ step >= 1) =>
        /\ saved <= 1
        /\ pc = "done" => saved = 1
        /\ pc \notin LoopPcs => pc = "done"

\* C10 (Spec): for n > 3 the retry loop is entered with dst1 >= 1 and
\* returns after exactly one redraw of idx[0].
C10_ExactlyOneRedraw ==
    /\ (pc = "redraw" /\ n > 3) => (redraws = 0 /\ dst1 >= 1)
    /\ (pc = "returned" /\ n > 3) => (redraws = 1 /\ dst1 >= 1)

\* C10 witness: a returned index cyclically adjacent to idx[1]
C10_Witness ==
    /\ pc = "returned" /\ n > 3 /\ redraws = 1
    /\ Abs(idx[1] - idx[2]) \in {1, n - 1}

====
